---------------------------- MODULE Spec2Model ----------------------------
(***************************************************************************)
(* A model of picserver: the image-to-display codec                        *)
(* (src/app/jpg_to_waveshare73_bmp.py) and the web server's display update *)
(* and weather cache (src/app/main.py).                                    *)
(*                                                                         *)
(* The module holds several specifications over one variable vector, one   *)
(* per part of the program:                                                *)
(*   SpecBatch    main() / convert_to_waveshare_bmp(): argument parsing,   *)
(*                the per-image loop with its try/except, the tally        *)
(*   SpecResize   resize_with_mode()                                       *)
(*   SpecTone     enhance_image()                                          *)
(*   SpecQuant    quantize_to_7c() without dithering, save_bmp()           *)
(*   SpecDither   quantize_to_7c() with dithering, pixel by pixel          *)
(*   SpecUpdate   POST /update: update_display() under _update_lock        *)
(*   SpecWeather  _weather_worker(), _weather_once(), GET /weather         *)
(* Each specification leaves the variables of the other parts at their     *)
(* idle values.                                                            *)
(***************************************************************************)
EXTENDS Integers, Sequences, FiniteSets, TLC

VARIABLES
    \* ---- main() / convert_to_waveshare_bmp() ----
    pc,          \* position of the run: "idle", "parse", "loop", "api", "done", "fatal", "returned", "raised"
    entry,       \* "main" (command line) or "api" (convert_to_waveshare_bmp)
    args,        \* the parsed options: mode, width, height, rotate, bmp_mode
    input,       \* args.input / input_path: a directory listing with a glob, or one file
    idx,         \* position of the for loop in iter_input_paths(...)
    count_ok,    \* main's count_ok
    count_err,   \* main's count_err
    attempts,    \* the loop body's runs, in order: the in_path and how it ended
    touched,     \* the pipeline stages executed so far, over all images
    out_dir,     \* the output directory: file name -> input it was converted from
    reported,    \* the "[OK] in -> out" lines printed
    tally,       \* the "Done. Converted: .., Errors: .." line, or NoTally
    exit_status, \* process exit status, or NoExit while running
    \* ---- resize_with_mode() ----
    rz,
    \* ---- enhance_image() ----
    tone,
    \* ---- quantize_to_7c(img, dither=False) and save_bmp() ----
    qz,
    \* ---- quantize_to_7c(img, dither=True) ----
    dz,
    \* ---- POST /update: update_display() and _update_lock ----
    up,
    \* ---- the weather worker, app.state.weather_* and GET /weather ----
    wx

batchVars == <<pc, entry, args, input, idx, count_ok, count_err, attempts,
               touched, out_dir, reported, tally, exit_status>>
vars == <<batchVars, rz, tone, qz, dz, up, wx>>
notBatch == <<rz, tone, qz, dz, up, wx>>

-----------------------------------------------------------------------------
(* Helpers *)

Abs(n) == IF n < 0 THEN -n ELSE n

Range(s) == {s[i] : i \in 1..Len(s)}

\* The members of a set of integers, in increasing order (sorted()).
RECURSIVE SortedSeq(_)
SortedSeq(S) ==
    IF S = {} THEN <<>>
    ELSE LET m == CHOOSE x \in S : \A y \in S : x <= y
         IN  <<m>> \o SortedSeq(S \ {m})

-----------------------------------------------------------------------------
(* Idle values: what a specification gives the variables it does not use *)

NoTally == [ok |-> -1, err |-> -1]
NoExit == -1

BatchIdle ==
    /\ pc = "idle"
    /\ entry = "none"
    /\ args = [mode |-> "fit", width |-> 800, height |-> 480, rotate |-> 0, bmp_mode |-> "P"]
    /\ input = [kind |-> "file", file |-> 1]
    /\ idx = 1
    /\ count_ok = 0
    /\ count_err = 0
    /\ attempts = <<>>
    /\ touched = {}
    /\ out_dir = {}
    /\ reported = {}
    /\ tally = NoTally
    /\ exit_status = NoExit

RzIdle == rz = [st |-> "idle"]
ToneIdle == tone = [st |-> "idle"]
QzIdle == qz = [st |-> "idle"]
DzIdle == dz = [st |-> "idle"]
UpIdle == up = [st |-> "idle"]
WxIdle == wx = [st |-> "idle"]

-----------------------------------------------------------------------------
(***************************************************************************)
(* The batch run: main(), lines 147-215, and the programmatic wrapper      *)
(* convert_to_waveshare_bmp(), lines 217-249.                              *)
(***************************************************************************)

\* Bound: the largest directory listing considered.
MaxInputs == 3

\* The files a directory may hold, in the order sorted() gives their paths.
Files == << [stem |-> "a", suffix |-> ".jpg"],
            [stem |-> "a", suffix |-> ".png"],
            [stem |-> "b", suffix |-> ".JPG"],
            [stem |-> "b", suffix |-> ".txt"] >>

FileIds == 1..Len(Files)

\* str.lower() on the suffixes of Files.
Lower(s) == IF s = ".JPG" THEN ".jpg" ELSE s

\* Path.glob(pattern) on one file name, for the patterns considered.
GlobMatch(pattern, f) ==
    \/ pattern = "*"
    \/ pattern = "*.jpg" /\ Files[f].suffix = ".jpg"
    \/ pattern = "*.png" /\ Files[f].suffix = ".png"

\* iter_input_paths(arg_path, glob_pat): the paths the loop visits, in order.
iter_input_paths(inp) ==
    IF inp.kind = "dir"
    THEN LET pattern == IF inp.glob = "None" THEN "*.jpg" ELSE inp.glob
         IN  SortedSeq({f \in inp.listing :
                          /\ GlobMatch(pattern, f)
                          /\ Lower(Files[f].suffix) \in {".jpg", ".jpeg", ".png", ".bmp"}})
    ELSE <<inp.file>>

\* out_name = f"{in_path.stem}.bmp"
OutName(f) == Files[f].stem \o ".bmp"

\* The option values the runs are started with.
Modes == {"fit", "fill", "stretch"}
BmpModes == {"P", "RGB", "JPEG"}
Dims == {<<800, 480>>, <<800, 0>>, <<0, 480>>}
Rotations == {0, 90}

ArgSets ==
    [mode : Modes, width : {d[1] : d \in Dims}, height : {d[2] : d \in Dims},
     rotate : Rotations, bmp_mode : BmpModes]

Inputs ==
    {[kind |-> "dir", listing |-> l, glob |-> g] :
        l \in {s \in SUBSET FileIds : Cardinality(s) <= MaxInputs},
        g \in {"None", "*.png", "*"}}
    \cup {[kind |-> "file", file |-> f] : f \in FileIds}

\* The configuration the specification calls valid (GeometryRequest and
\* bitmap_variant: mode fit|fill, width > 0, height > 0, P|RGB).
ValidConfiguration(a) ==
    /\ a.mode \in {"fit", "fill"}
    /\ a.width > 0
    /\ a.height > 0
    /\ a.bmp_mode \in {"P", "RGB"}

\* argparse: --mode and --bmp-mode have choices=[...]; --width and --height
\* are type=int with no range check.
ArgparseAccepts(a) ==
    /\ a.mode \in {"fit", "fill"}
    /\ a.bmp_mode \in {"P", "RGB"}
    /\ a.rotate \in {0, 90, 180, 270}

\* The outcome of the stages of one image up to and including resize:
\* "ok", or the stage that raised.  fault is what is wrong with the image
\* itself ("none", "open": unreadable, "save": the file cannot be written);
\* lib is the outcome of Pillow's resize/crop when handed a non-positive
\* width, which this model leaves open.
\* The stages run, in order, by the body of the loop (lines 187-205) and by
\* convert_to_waveshare_bmp (lines 237-247), with the stage that raises.
Pipeline(a, fault, lib) ==
    IF fault = "open" THEN [stages |-> {"open"}, raised |-> "open"]
    ELSE LET s1 == {"open"} \cup (IF a.rotate # 0 THEN {"rotate"} ELSE {})
         IN
         \* resize_with_mode, line 67: mode check; line 71: tw / th
         IF a.mode \notin {"fit", "fill"} THEN [stages |-> s1 \cup {"resize"}, raised |-> "ValueError"]
         ELSE IF a.height = 0 THEN [stages |-> s1 \cup {"resize"}, raised |-> "ZeroDivisionError"]
         ELSE IF a.width <= 0 /\ lib = "raise" THEN [stages |-> s1 \cup {"resize"}, raised |-> "ValueError"]
         ELSE LET s2 == s1 \cup {"resize", "enhance", "quantize", "save"}
              IN
              \* save_bmp, lines 127-135
              IF a.bmp_mode \notin {"P", "RGB"} THEN [stages |-> s2, raised |-> "ValueError"]
              ELSE IF fault = "save" THEN [stages |-> s2, raised |-> "OSError"]
              ELSE [stages |-> s2, raised |-> "no"]

\* Writing the output file replaces whatever had that name.
WriteFile(dir, name, src) ==
    {e \in dir : e.name # name} \cup {[name |-> name, src |-> src]}

\* sys.exit(1) if count_err > 0, else the interpreter's normal exit 0.
ExitStatusAlwaysZero(err) == 0
ExitStatus(err) == IF err > 0 THEN 1 ELSE 0

InitBatch ==
    /\ pc \in {"parse", "api"}
    /\ entry = IF pc = "parse" THEN "main" ELSE "api"
    /\ args \in {a \in ArgSets : <<a.width, a.height>> \in Dims}
    /\ input \in Inputs
    /\ pc = "api" => input.kind = "file"
    /\ idx = 1
    /\ count_ok = 0
    /\ count_err = 0
    /\ attempts = <<>>
    /\ touched = {}
    /\ out_dir = {}
    /\ reported = {}
    /\ tally = NoTally
    /\ exit_status = NoExit
    /\ RzIdle
    /\ ToneIdle
    /\ QzIdle
    /\ DzIdle
    /\ UpIdle
    /\ WxIdle

\* parser.parse_args(): an option outside its choices ends the process with
\* status 2 before anything else runs; otherwise the loop starts
\* (lines 164-183).
ParseArgs ==
    /\ pc = "parse"
    /\ IF ArgparseAccepts(args)
       THEN /\ pc' = "loop"
            /\ exit_status' = exit_status
       ELSE /\ pc' = "fatal"
            /\ exit_status' = 2
    /\ UNCHANGED <<entry, args, input, idx, count_ok, count_err, attempts,
                   touched, out_dir, reported, tally>>
    /\ UNCHANGED notBatch

\* One iteration of the for loop, lines 185-211: the try body and its
\* except Exception handler.
ConvertOne ==
    /\ pc = "loop"
    /\ idx <= Len(iter_input_paths(input))
    /\ \E fault \in {"none", "open", "save"}, lib \in {"raise", "proceed"} :
         LET in_path == iter_input_paths(input)[idx]
             r == Pipeline(args, fault, lib)
         IN  /\ attempts' = Append(attempts, [in_path |-> in_path, raised |-> r.raised])
             /\ touched' = touched \cup r.stages
             /\ IF r.raised = "no"
                THEN /\ out_dir' = WriteFile(out_dir, OutName(in_path), in_path)
                     /\ reported' = reported \cup {[in |-> in_path, out |-> OutName(in_path)]}
                     /\ count_ok' = count_ok + 1
                     /\ count_err' = count_err
                ELSE /\ count_err' = count_err + 1
                     /\ UNCHANGED <<out_dir, reported, count_ok>>
    /\ idx' = idx + 1
    /\ UNCHANGED <<pc, entry, args, input, tally, exit_status>>
    /\ UNCHANGED notBatch

\* After the loop, lines 213-215: the tally and the exit status.
Finish ==
    /\ pc = "loop"
    /\ idx > Len(iter_input_paths(input))
    /\ tally' = [ok |-> count_ok, err |-> count_err]
    /\ exit_status' = ExitStatus(count_err)
    /\ pc' = "done"
    /\ UNCHANGED <<entry, args, input, idx, count_ok, count_err, attempts,
                   touched, out_dir, reported>>
    /\ UNCHANGED notBatch

\* convert_to_waveshare_bmp(input_path, ...), lines 217-249: the same stages
\* with no handler; an exception reaches the caller.
ConvertApi ==
    /\ pc = "api"
    /\ \E fault \in {"none", "open", "save"}, lib \in {"raise", "proceed"} :
         LET in_path == input.file
             r == Pipeline(args, fault, lib)
         IN  /\ attempts' = Append(attempts, [in_path |-> in_path, raised |-> r.raised])
             /\ touched' = touched \cup r.stages
             /\ IF r.raised = "no"
                THEN /\ out_dir' = WriteFile(out_dir, OutName(in_path), in_path)
                     /\ pc' = "returned"
                ELSE /\ out_dir' = out_dir
                     /\ pc' = "raised"
    /\ UNCHANGED <<entry, args, input, idx, count_ok, count_err, reported,
                   tally, exit_status>>
    /\ UNCHANGED notBatch

NextBatch ==
    \/ ParseArgs
    \/ ConvertOne
    \/ Finish
    \/ ConvertApi

SpecBatch == InitBatch /\ [][NextBatch]_vars

-----------------------------------------------------------------------------
(* Claims about the batch run *)

InPaths(log) == [i \in 1..Len(log) |-> log[i].in_path]

\* C1: in the batch run every input path is attempted exactly once and in
\* order, whatever failed before it (the log of loop bodies run so far is
\* the prefix of the input paths the loop has passed, and the loop can always
\* go on); count_ok + count_err counts the attempts; at the end the tally is
\* reported with these counts, and the exit status is non-zero exactly when
\* count_err > 0.
C1_BatchIsolatesFailures ==
    /\ (entry = "main" /\ pc \in {"loop", "done"}) =>
         /\ InPaths(attempts) = SubSeq(iter_input_paths(input), 1, idx - 1)
         /\ count_ok + count_err = Len(attempts)
         /\ count_err = Cardinality({i \in 1..Len(attempts) : attempts[i].raised # "no"})
    /\ (entry = "main" /\ pc = "loop") => ENABLED (ConvertOne \/ Finish)
    /\ (entry = "main" /\ pc = "done") =>
         /\ InPaths(attempts) = iter_input_paths(input)
         /\ count_ok + count_err = Len(iter_input_paths(input))
         /\ tally = [ok |-> count_ok, err |-> count_err]
         /\ (exit_status # 0) <=> (count_err > 0)

\* A finished batch of three images in which a failure came before a success.
C1_Witness ==
    /\ entry = "main"
    /\ pc = "done"
    /\ Len(attempts) = 3
    /\ \E i, j \in 1..Len(attempts) :
         i < j /\ attempts[i].raised # "no" /\ attempts[j].raised = "no"
    /\ exit_status = 1

\* C2: with an invalid configuration (mode, width, height, bitmap variant)
\* no image is opened, rotated, resized or quantized, and nothing is counted
\* as a per-image error: the invocation is rejected before the pipeline runs.
C2_InvalidConfigurationRejectedFirst ==
    ~ValidConfiguration(args) => (touched = {} /\ count_err = 0)

\* C9: after a batch, every input reported as converted has its own output
\* file, holding its own conversion, so the directory holds as many files
\* as inputs were converted.
C9_OneOutputPerInput ==
    (entry = "main" /\ pc = "done" /\ ValidConfiguration(args)) =>
        /\ \A r \in reported : [name |-> r.out, src |-> r.in] \in out_dir
        /\ Cardinality(out_dir) = count_ok

-----------------------------------------------------------------------------
(***************************************************************************)
(* resize_with_mode(), lines 63-101.                                       *)
(*                                                                         *)
(* The code computes in floating point: src_aspect = iw / ih,              *)
(* dst_aspect = tw / th, round(tw / src_aspect), round(th * src_aspect).   *)
(* The model computes the same values exactly: the comparison of the       *)
(* aspects by cross-multiplication, the quotient as a fraction, and        *)
(* round() as Python's rounding of a tie to the even integer.  For all     *)
(* four sizes in 1..17 the two computations give the same integers (for    *)
(* larger sizes a tie such as 9*7/18 = 3.5 is not exact in floating point  *)
(* and may round the other way); MaxDim stays below that.                  *)
(***************************************************************************)

\* Bound: the largest source or target dimension considered.
MaxDim == 5

\* round(num / den) for num >= 0, den > 0: nearest integer, a tie to even.
RoundHalfEven(num, den) ==
    LET q == num \div den
        r == num % den
    IN  IF 2 * r > den \/ (2 * r = den /\ q % 2 = 1) THEN q + 1 ELSE q

\* Lines 75-80: the scaled size in mode fit.
FitScale(iw, ih, tw, th) ==
    IF iw * th > tw * ih                \* src_aspect > dst_aspect
    THEN <<tw, RoundHalfEven(tw * ih, iw)>>
    ELSE <<RoundHalfEven(th * iw, ih), th>>

\* FillScale with the comparison of fit.
FillScaleAsFit(iw, ih, tw, th) ==
    IF iw * th > tw * ih
    THEN <<tw, RoundHalfEven(tw * ih, iw)>>
    ELSE <<RoundHalfEven(th * iw, ih), th>>

\* Lines 89-94: the scaled size in mode fill.
FillScale(iw, ih, tw, th) ==
    IF iw * th < tw * ih                \* src_aspect < dst_aspect
    THEN <<tw, RoundHalfEven(tw * ih, iw)>>
    ELSE <<RoundHalfEven(th * iw, ih), th>>

\* The result of resize_with_mode: the exception raised, or the image
\* returned with the values that made it.  Image.resize refuses a size with
\* a side below 1 (ValueError: height and width must be > 0).
resize_with_mode(iw, ih, tw, th, mode) ==
    IF mode \notin {"fit", "fill"} THEN [st |-> "ValueError", why |-> "mode"]
    ELSE IF mode = "fit"
    THEN LET new == FitScale(iw, ih, tw, th)
         IN  IF new[1] < 1 \/ new[2] < 1
             THEN [st |-> "ValueError", why |-> "resize", new |-> new]
             ELSE [st |-> "ok", new |-> new,
                   \* canvas = Image.new("RGB", (tw, th), bg); paste at (x, y)
                   size |-> <<tw, th>>,
                   x |-> (tw - new[1]) \div 2,
                   y |-> (th - new[2]) \div 2]
    ELSE LET new == FillScale(iw, ih, tw, th)
             left == (new[1] - tw) \div 2
             top == (new[2] - th) \div 2
             right == left + tw
             bottom == top + th
         IN  IF new[1] < 1 \/ new[2] < 1
             THEN [st |-> "ValueError", why |-> "resize", new |-> new]
             ELSE [st |-> "ok", new |-> new,
                   \* resized.crop((left, top, right, bottom))
                   size |-> <<right - left, bottom - top>>,
                   left |-> left, top |-> top, right |-> right, bottom |-> bottom]

InitResize ==
    /\ BatchIdle
    /\ UpIdle
    /\ WxIdle
    /\ ToneIdle
    /\ QzIdle
    /\ DzIdle
    /\ rz \in [st : {"call"}, iw : 1..MaxDim, ih : 1..MaxDim,
               tw : 1..MaxDim, th : 1..MaxDim, mode : Modes]

\* One call of resize_with_mode on an image of size (iw, ih).
Resize ==
    /\ rz.st = "call"
    /\ rz' = [st |-> "returned", iw |-> rz.iw, ih |-> rz.ih, tw |-> rz.tw,
              th |-> rz.th, mode |-> rz.mode,
              out |-> resize_with_mode(rz.iw, rz.ih, rz.tw, rz.th, rz.mode)]
    /\ UNCHANGED <<batchVars, up, wx, tone, qz, dz>>

NextResize == Resize

SpecResize == InitResize /\ [][NextResize]_vars

-----------------------------------------------------------------------------
(* Claims about resize_with_mode *)

\* C3: for positive source and target sizes, mode fit returns a canvas of
\* exactly (tw, th); the scaled size has 1 <= new_w <= tw and
\* 1 <= new_h <= th with one of them equal to its target; the paste offsets
\* are non-negative and the pasted image ends inside the canvas.
C3_FitInsideCanvas ==
    (rz.st = "returned" /\ rz.mode = "fit") =>
        /\ rz.out.st = "ok"
        /\ rz.out.size = <<rz.tw, rz.th>>
        /\ 1 <= rz.out.new[1] /\ rz.out.new[1] <= rz.tw
        /\ 1 <= rz.out.new[2] /\ rz.out.new[2] <= rz.th
        /\ (rz.out.new[1] = rz.tw \/ rz.out.new[2] = rz.th)
        /\ rz.out.x >= 0 /\ rz.out.y >= 0
        /\ rz.out.x + rz.out.new[1] <= rz.tw
        /\ rz.out.y + rz.out.new[2] <= rz.th

\* C4: for positive source and target sizes, mode fill scales to at least
\* the target on both axes, crops with non-negative offsets a box that lies
\* inside the scaled image, discards margins that differ by at most one
\* pixel between opposite sides, and returns exactly (tw, th).
C4_FillCoversTarget ==
    (rz.st = "returned" /\ rz.mode = "fill") =>
        /\ rz.out.st = "ok"
        /\ rz.out.new[1] >= rz.tw /\ rz.out.new[2] >= rz.th
        /\ rz.out.left >= 0 /\ rz.out.top >= 0
        /\ rz.out.right <= rz.out.new[1] /\ rz.out.bottom <= rz.out.new[2]
        /\ Abs(rz.out.left - (rz.out.new[1] - rz.out.right)) <= 1
        /\ Abs(rz.out.top - (rz.out.new[2] - rz.out.bottom)) <= 1
        /\ rz.out.size = <<rz.tw, rz.th>>

\* A fill that crops an odd excess: the two margins differ by one pixel.
C4_Witness ==
    /\ rz.st = "returned"
    /\ rz.mode = "fill"
    /\ rz.out.st = "ok"
    /\ rz.out.new[1] > rz.tw
    /\ rz.out.left + 1 = rz.out.new[1] - rz.out.right

-----------------------------------------------------------------------------
(***************************************************************************)
(* enhance_image(), lines 103-111.                                         *)
(*                                                                         *)
(* A multiplier is held in units of 0.0001, so 1.0 is 10000 and the        *)
(* tolerance 1e-3 is 10.  The multipliers considered are values on which   *)
(* the floating-point test abs(m - 1.0) > 1e-3 and the exact one agree     *)
(* (at the end points they need not: in floating point 0.999 - 1.0 is      *)
(* -0.0010000000000000009, beyond the tolerance).                          *)
(***************************************************************************)

\* 1.0 and 1e-3 (line 105), in units of 0.0001.
One == 10000
Eps == 10

Multipliers == {0, 5000, 9989, 9995, 10000, 10005, 10011, 15000}

\* The guard of lines 105, 107, 109: "m and abs(m - 1.0) > 1e-3".  A float
\* is true in a condition unless it is 0.0.
Enhances(m) == m # 0 /\ Abs(m - One) > Eps

\* The enhancers enhance_image applies to the image, in the order applied.
enhance_image(contrast, saturation, sharpness) ==
    (IF Enhances(contrast) THEN <<[op |-> "Contrast", by |-> contrast]>> ELSE <<>>)
    \o (IF Enhances(saturation) THEN <<[op |-> "Color", by |-> saturation]>> ELSE <<>>)
    \o (IF Enhances(sharpness) THEN <<[op |-> "Sharpness", by |-> sharpness]>> ELSE <<>>)

InitTone ==
    /\ BatchIdle
    /\ UpIdle
    /\ WxIdle
    /\ RzIdle
    /\ QzIdle
    /\ DzIdle
    /\ tone \in [st : {"call"}, contrast : Multipliers, saturation : Multipliers,
                 sharpness : Multipliers]

\* One call of enhance_image.
Enhance ==
    /\ tone.st = "call"
    /\ tone' = [st |-> "returned", contrast |-> tone.contrast,
                saturation |-> tone.saturation, sharpness |-> tone.sharpness,
                applied |-> enhance_image(tone.contrast, tone.saturation, tone.sharpness)]
    /\ UNCHANGED <<batchVars, up, wx, rz, qz, dz>>

NextTone == Enhance

SpecTone == InitTone /\ [][NextTone]_vars

-----------------------------------------------------------------------------
(* Claims about enhance_image *)

Ops(applied) == [i \in 1..Len(applied) |-> applied[i].op]

\* C10: each of contrast, saturation and sharpness is applied exactly when
\* its multiplier differs from 1.0 by more than 1e-3 (0.0 included), with
\* that multiplier, and the applied ones run in the order contrast,
\* saturation, sharpness.
C10_ToneAppliedIffBeyondEps ==
    tone.st = "returned" =>
        /\ ([op |-> "Contrast", by |-> tone.contrast] \in Range(tone.applied))
             <=> (Abs(tone.contrast - One) > Eps)
        /\ ([op |-> "Color", by |-> tone.saturation] \in Range(tone.applied))
             <=> (Abs(tone.saturation - One) > Eps)
        /\ ([op |-> "Sharpness", by |-> tone.sharpness] \in Range(tone.applied))
             <=> (Abs(tone.sharpness - One) > Eps)
        /\ Ops(tone.applied) \in
             {<<>>, <<"Contrast">>, <<"Color">>, <<"Sharpness">>,
              <<"Contrast", "Color">>, <<"Contrast", "Sharpness">>,
              <<"Color", "Sharpness">>, <<"Contrast", "Color", "Sharpness">>}

-----------------------------------------------------------------------------
(***************************************************************************)
(* The palette and quantize_to_7c(), lines 42-61 and 113-119.              *)
(*                                                                         *)
(* quantize_to_7c hands the image and the 256-entry palette image to       *)
(* Pillow: img_rgb.quantize(palette=pal_img, dither=dither_flag), which    *)
(* runs libImaging's conversion of an RGB image to a given palette         *)
(* (Convert.c, topalette; Palette.c, ImagingPaletteCacheUpdate).  The      *)
(* definitions below follow that routine: the nearest palette entry is     *)
(* looked up per cache slot, one slot per 4x4x4 block of colours, among    *)
(* the entries the box test keeps, the first entry of least distance       *)
(* winning.                                                                *)
(***************************************************************************)

\* Lines 42-50.
WAVESHARE_7C_PALETTE ==
    << <<0, 0, 0>>,         \* Black
       <<255, 255, 255>>,   \* White
       <<255, 0, 0>>,       \* Red
       <<255, 255, 0>>,     \* Yellow
       <<0, 0, 255>>,       \* Blue
       <<0, 255, 0>>,       \* Green
       <<255, 165, 0>> >>   \* Orange

\* Line 59: the palette is padded to 256 entries.
PaletteSize == 256

\* (mutant) the padding filled with 255 instead of 0.
build_palette_image_pad255 ==
    [k \in 1..(PaletteSize * 3) |->
        IF k <= 3 * Len(WAVESHARE_7C_PALETTE)
        THEN WAVESHARE_7C_PALETTE[((k - 1) \div 3) + 1][((k - 1) % 3) + 1]
        ELSE 255]

\* build_palette_image(), lines 52-61: the flat list given to putpalette,
\* r, g, b of each colour in turn, then zeros up to 256 * 3 values.
build_palette_image ==
    [k \in 1..(PaletteSize * 3) |->
        IF k <= 3 * Len(WAVESHARE_7C_PALETTE)
        THEN WAVESHARE_7C_PALETTE[((k - 1) \div 3) + 1][((k - 1) % 3) + 1]
        ELSE 0]

\* Entry i (0..255) of the palette of pal_img.
PaletteEntry(i) ==
    <<build_palette_image[3 * i + 1], build_palette_image[3 * i + 2],
      build_palette_image[3 * i + 3]>>

Sq(n) == n * n

\* The box of 32 values per channel around v (v & 0xe0 .. + 0x1f) and its
\* middle.
BoxLo(v) == (v \div 32) * 32
BoxHi(v) == BoxLo(v) + 31
BoxMid(v) == (BoxLo(v) + BoxHi(v)) \div 2

\* The distances the box test gives palette value p for the box around v.
Tmin(p, v) ==
    IF p < BoxLo(v) THEN Sq(p - BoxHi(v))
    ELSE IF p > BoxHi(v) THEN Sq(p - BoxLo(v))
    ELSE 0
Tmax(p, v) ==
    IF p <= BoxMid(v) THEN Sq(p - BoxHi(v)) ELSE Sq(p - BoxLo(v))

Dmin(i, px) ==
    Tmin(PaletteEntry(i)[1], px[1]) + Tmin(PaletteEntry(i)[2], px[2])
        + Tmin(PaletteEntry(i)[3], px[3])

\* The smallest of the entries' largest distances to the box.
Dmax(px) ==
    LET all == {Tmax(PaletteEntry(i)[1], px[1]) + Tmax(PaletteEntry(i)[2], px[2])
                  + Tmax(PaletteEntry(i)[3], px[3]) : i \in 0..(PaletteSize - 1)}
    IN  CHOOSE m \in all : \A n \in all : m <= n

\* The colour a cache slot stands for: each channel with its two low bits
\* cleared (the slot of (r, g, b) is r >> 2, g >> 2, b >> 2).
SlotColour(px) == <<(px[1] \div 4) * 4, (px[2] \div 4) * 4, (px[3] \div 4) * 4>>

Dist(a, b) == Sq(a[1] - b[1]) + Sq(a[2] - b[2]) + Sq(a[3] - b[3])

\* The scan of the entries in index order, for the slot of px: the entries
\* the box test keeps are compared by their distance to the slot's colour,
\* and an entry replaces the best so far only when it is strictly nearer
\* ("if (bd < d[j])"), so the result is the first of the kept entries at the
\* least distance.  (The entry that gives Dmax is always kept; a slot starts
\* at the largest unsigned distance, above every distance between colours.)
classify(px) ==
    LET dmax == Dmax(px)
        kept == {i \in 0..(PaletteSize - 1) : Dmin(i, px) <= dmax}
        dist == [i \in kept |-> Dist(SlotColour(px), PaletteEntry(i))]
        least == CHOOSE d \in {dist[i] : i \in kept} :
                     \A i \in kept : d <= dist[i]
        nearest == {i \in kept : dist[i] = least}
    IN  CHOOSE i \in nearest : \A j \in nearest : i <= j

-----------------------------------------------------------------------------
(***************************************************************************)
(* quantize_to_7c(img, dither=False) and save_bmp(), lines 113-135.        *)
(*                                                                         *)
(* An image is its width, its height and its pixels in row-major order.    *)
(***************************************************************************)

\* Bound: the largest number of pixels of an image considered here.
MaxPixels == 2

\* The colours the pixels are drawn from: the seven palette colours, a
\* colour between Yellow and Orange and one between Blue and Green.
TestColours ==
    Range(WAVESHARE_7C_PALETTE) \cup {<<255, 211, 0>>, <<0, 135, 132>>}

Shapes == {sh \in (1..MaxPixels) \X (1..MaxPixels) : sh[1] * sh[2] <= MaxPixels}

\* Image.NONE: every pixel is mapped by itself.
QuantizeNone(pixels) == [p \in 1..Len(pixels) |-> classify(pixels[p])]

\* (mutant) the palette looked up with blue and red exchanged.
ConvertToBGR(indices) ==
    [p \in 1..Len(indices) |->
        <<PaletteEntry(indices[p])[3], PaletteEntry(indices[p])[2],
          PaletteEntry(indices[p])[1]>>]

\* img_quantized.convert("RGB"), line 132: each index replaced by its
\* palette entry.
ConvertToRGB(indices) == [p \in 1..Len(indices) |-> PaletteEntry(indices[p])]

\* The rows of an image, the last row first, each filled with zero bytes to
\* a multiple of 4 bytes.
RECURSIVE Flatten(_)
Flatten(seqs) == IF seqs = <<>> THEN <<>> ELSE Head(seqs) \o Flatten(Tail(seqs))

PadRow(bytes) == bytes \o [k \in 1..((4 - (Len(bytes) % 4)) % 4) |-> 0]

BmpRows(cells, w, h) ==
    [k \in 1..h |->
        PadRow(Flatten([x \in 1..w |-> cells[(h - k) * w + x]]))]

\* The file save_bmp writes (Pillow's BMP writer): for "P" 8 bits per pixel
\* and a colour table of the image's palette, one B, G, R, 0 entry per
\* palette entry; for "RGB" 24 bits per pixel, B, G, R, and no table.
save_bmp(indices, w, h, bmp_mode) ==
    IF bmp_mode = "P"
    THEN [st |-> "written", bits |-> 8,
          table |-> [k \in 1..PaletteSize |->
                        <<PaletteEntry(k - 1)[3], PaletteEntry(k - 1)[2],
                          PaletteEntry(k - 1)[1], 0>>],
          data |-> BmpRows([p \in 1..Len(indices) |-> <<indices[p]>>], w, h)]
    ELSE IF bmp_mode = "RGB"
    THEN [st |-> "written", bits |-> 24,
          table |-> <<>>,
          data |-> BmpRows([p \in 1..Len(indices) |->
                              LET c == ConvertToRGB(indices)[p]
                              IN  <<c[3], c[2], c[1]>>], w, h)]
    ELSE [st |-> "ValueError"]

\* Reading the colour table of a file back: entry i as (r, g, b).
ReadColourTable(file) ==
    [i \in 0..(Len(file.table) - 1) |->
        <<file.table[i + 1][3], file.table[i + 1][2], file.table[i + 1][1]>>]

InitQuant ==
    /\ BatchIdle
    /\ UpIdle
    /\ WxIdle
    /\ RzIdle
    /\ ToneIdle
    /\ DzIdle
    /\ \E sh \in Shapes :
         qz \in [st : {"call"}, w : {sh[1]}, h : {sh[2]},
                 img : [1..(sh[1] * sh[2]) -> TestColours]]

\* q = quantize_to_7c(img, dither=False)
Quantize ==
    /\ qz.st = "call"
    /\ qz' = [st |-> "quantized", w |-> qz.w, h |-> qz.h, img |-> qz.img,
              out |-> QuantizeNone(qz.img)]
    /\ UNCHANGED <<batchVars, up, wx, rz, tone, dz>>

\* save_bmp(q, out_path, bmp_mode)
SaveBmp ==
    /\ qz.st = "quantized"
    /\ \E bmp_mode \in BmpModes :
         qz' = [st |-> "saved", w |-> qz.w, h |-> qz.h, img |-> qz.img,
                out |-> qz.out, bmp_mode |-> bmp_mode,
                file |-> save_bmp(qz.out, qz.w, qz.h, bmp_mode)]
    /\ UNCHANGED <<batchVars, up, wx, rz, tone, dz>>

\* The quantized image expanded to RGB and quantized again:
\* quantize_to_7c(q.convert("RGB"), dither=False).
Requantize ==
    /\ qz.st = "quantized"
    /\ qz' = [st |-> "requantized", w |-> qz.w, h |-> qz.h, img |-> qz.img,
              out |-> qz.out,
              rgb |-> ConvertToRGB(qz.out),
              again |-> QuantizeNone(ConvertToRGB(qz.out))]
    /\ UNCHANGED <<batchVars, up, wx, rz, tone, dz>>

NextQuant ==
    \/ Quantize
    \/ SaveBmp
    \/ Requantize

SpecQuant == InitQuant /\ [][NextQuant]_vars

-----------------------------------------------------------------------------
(* Claims about the palette, the quantizer without dithering, the encoder *)

\* The seven palette colours in the declared order.
Black == <<0, 0, 0>>
White == <<255, 255, 255>>
Red == <<255, 0, 0>>
Yellow == <<255, 255, 0>>
Blue == <<0, 0, 255>>
Green == <<0, 255, 0>>
Orange == <<255, 165, 0>>
SevenColours == <<Black, White, Red, Yellow, Blue, Green, Orange>>

\* The smallest index among the seven colours at the least squared distance.
ExactNearest(px) ==
    LET least == CHOOSE d \in {Dist(px, SevenColours[k]) : k \in 1..7} :
                     \A k \in 1..7 : d <= Dist(px, SevenColours[k])
    IN  (CHOOSE k \in 1..7 :
            /\ Dist(px, SevenColours[k]) = least
            /\ \A j \in 1..7 : Dist(px, SevenColours[j]) = least => k <= j) - 1

\* C5: every pixel gets the smallest index among the palette entries of
\* least squared distance to it, an index in 0..6 (never one of the padding
\* entries 7..255), and a pixel of palette colour i gets index i.
C5_ClassifyExactNearest ==
    qz.st \in {"quantized", "saved", "requantized"} =>
        \A p \in 1..Len(qz.img) :
            /\ qz.out[p] = ExactNearest(qz.img[p])
            /\ qz.out[p] \in 0..6
            /\ \A k \in 1..7 : qz.img[p] = SevenColours[k] => qz.out[p] = k - 1

\* C6: quantizing without dithering, expanding the result to RGB through
\* the palette and quantizing again gives the same indexed buffer.
C6_QuantizeIdempotent ==
    qz.st = "requantized" =>
        /\ qz.again = qz.out
        /\ \A p \in 1..Len(qz.out) : qz.rgb[p] = SevenColours[qz.out[p] + 1]

\* An image with a pixel that is no palette colour, quantized twice.
C6_Witness ==
    /\ qz.st = "requantized"
    /\ \E p \in 1..Len(qz.img) : qz.img[p] \notin Range(SevenColours)
    /\ \E p \in 1..Len(qz.img) : qz.out[p] # 0

\* C8: the colour table read back from the 8-bit file holds 256 entries:
\* Black, White, Red, Yellow, Blue, Green, Orange at 0..6, in this order,
\* and zero-filled entries after them.
C8_ColourTableRoundTrip ==
    (qz.st = "saved" /\ qz.bmp_mode = "P") =>
        /\ qz.file.st = "written"
        /\ qz.file.bits = 8
        /\ Len(qz.file.table) = 256
        /\ \A i \in 0..6 : ReadColourTable(qz.file)[i] = SevenColours[i + 1]
        /\ \A i \in 7..255 : qz.file.table[i + 1] = <<0, 0, 0, 0>>

\* An 8-bit file written for an image that uses a colour other than Black.
C8_Witness ==
    /\ qz.st = "saved"
    /\ qz.bmp_mode = "P"
    /\ qz.file.st = "written"
    /\ \E p \in 1..Len(qz.out) : qz.out[p] # 0
    /\ qz.w * qz.h = 2

-----------------------------------------------------------------------------
(***************************************************************************)
(* quantize_to_7c(img, dither=True), lines 113-119:                        *)
(* img_rgb.quantize(palette=pal_img, dither=Image.FLOYDSTEINBERG).         *)
(*                                                                         *)
(* The routine (Convert.c, topalette) keeps the errors in sixteenths: one  *)
(* slot of three ints per column plus one (errors, xsize + 1 slots), the   *)
(* running values r, g, b (here carry), r0, g0, b0 (c0) and r1, g1, b1     *)
(* (c1), all zero at the start of a row.  For the pixel at x it            *)
(*   - reads slot x + 1:  r = CLIP8(in[0] + (r + e[3 + 0]) / 16), ...      *)
(*   - takes the palette entry of the slot of (r, g, b),                   *)
(*   - subtracts that entry: r, g, b are now the pixel's error,            *)
(*   - writes slot x = 3 * error + c0, and sets c0 = 5 * error + c1,       *)
(*     c1 = error, carry = 7 * error,                                      *)
(* and after the last pixel of a row it writes the slot xsize with         *)
(* e[0] = b0; e[1] = b1; e[2] = b2.                                        *)
(* One step of the model is one pixel, with the end of the row when the    *)
(* pixel is the last of its row.                                           *)
(***************************************************************************)

\* Bounds: the largest image dithered.
DitherMaxW == 2
DitherMaxH == 2

DitherColours == {<<0, 0, 100>>, <<128, 128, 128>>, <<255, 211, 0>>}

Zero3 == <<0, 0, 0>>

\* CLIP8
Clip8(v) == IF v < 0 THEN 0 ELSE IF v > 255 THEN 255 ELSE v

\* Division of C ints: the quotient is cut towards zero.
CDiv(a, b) == IF a >= 0 THEN a \div b ELSE -((-a) \div b)

InitDither ==
    /\ BatchIdle
    /\ UpIdle
    /\ WxIdle
    /\ RzIdle
    /\ ToneIdle
    /\ QzIdle
    /\ \E w \in 1..DitherMaxW, h \in 1..DitherMaxH :
         dz \in [st : {"loop"}, w : {w}, h : {h},
                 img : [1..(w * h) -> DitherColours],
                 x : {0}, y : {0},
                 carry : {Zero3}, c0 : {Zero3}, c1 : {Zero3},
                 errors : {[k \in 0..w |-> Zero3]},
                 out : {<<>>}, seen : {<<>>}, err : {<<>>}, acc : {<<>>}]

\* One pixel of the loop; out, seen, err and acc record, per pixel visited:
\* the index written, the clamped colour classified, the error
\* (clamped colour minus palette entry) and the sixteenths added to the
\* pixel before classifying it.
DitherPixel ==
    /\ dz.st = "loop"
    /\ LET x == dz.x
           in == dz.img[dz.y * dz.w + x + 1]
           a == [k \in 1..3 |-> dz.carry[k] + dz.errors[x + 1][k]]
           cl == [k \in 1..3 |-> Clip8(in[k] + CDiv(a[k], 16))]
           i == classify(cl)
           e == [k \in 1..3 |-> cl[k] - PaletteEntry(i)[k]]
           slot == [k \in 1..3 |-> 3 * e[k] + dz.c0[k]]
           c0 == [k \in 1..3 |-> 5 * e[k] + dz.c1[k]]
           c1 == e
           c2 == e
           lastx == (x = dz.w - 1)
           lasty == (dz.y = dz.h - 1)
           errs == [dz.errors EXCEPT ![x] = slot]
       IN  dz' = [dz EXCEPT
                    !.out = Append(@, i),
                    !.seen = Append(@, cl),
                    !.err = Append(@, e),
                    !.acc = Append(@, a),
                    !.errors = IF lastx
                               THEN [errs EXCEPT ![dz.w] = <<c0[3], c1[3], c2[3]>>]
                               ELSE errs,
                    !.carry = IF lastx THEN Zero3 ELSE [k \in 1..3 |-> 7 * e[k]],
                    !.c0 = IF lastx THEN Zero3 ELSE c0,
                    !.c1 = IF lastx THEN Zero3 ELSE c1,
                    !.x = IF lastx THEN 0 ELSE x + 1,
                    !.y = IF lastx THEN dz.y + 1 ELSE dz.y,
                    !.st = IF lastx /\ lasty THEN "returned" ELSE "loop"]
    /\ UNCHANGED <<batchVars, up, wx, rz, tone, qz>>

NextDither == DitherPixel

SpecDither == InitDither /\ [][NextDither]_vars

-----------------------------------------------------------------------------
(* Claims about the quantizer with dithering *)

\* The error of the pixel at column x, row y (0-based) in channel k, zero
\* outside the image.
ErrAt(x, y, k) ==
    IF x < 0 \/ x >= dz.w \/ y < 0 \/ y >= dz.h THEN 0
    ELSE dz.err[y * dz.w + x + 1][k]

\* What the kernel hands the pixel at (x, y), in sixteenths: 7 from the
\* left, 1 from above-left, 5 from above, 3 from above-right.
KernelSum(x, y, k) ==
    7 * ErrAt(x - 1, y, k) + ErrAt(x - 1, y - 1, k)
        + 5 * ErrAt(x, y - 1, k) + 3 * ErrAt(x + 1, y - 1, k)

RECURSIVE SumAbs(_, _)
SumAbs(seq, k) ==
    IF seq = <<>> THEN 0 ELSE Abs(Head(seq)[k]) + SumAbs(Tail(seq), k)

\* C7: pixels are visited in row-major order; what a pixel receives is, per
\* channel, 7/16 of the error of its left neighbour, 1/16 of its upper-left,
\* 5/16 of its upper and 3/16 of its upper-right neighbour (those in the
\* image) and nothing else; so, per channel, the error received over the
\* image does not exceed the quantization errors made; and every index
\* written is in 0..6.
C7_DitherKernel ==
    dz.st \in {"loop", "returned"} =>
        /\ Len(dz.out) = dz.y * dz.w + dz.x
        /\ \A p \in 1..Len(dz.out) :
             /\ dz.out[p] \in 0..6
             /\ \A k \in 1..3 :
                  dz.acc[p][k] = KernelSum((p - 1) % dz.w, (p - 1) \div dz.w, k)
        /\ \A k \in 1..3 : SumAbs(dz.acc, k) <= 16 * SumAbs(dz.err, k)

-----------------------------------------------------------------------------
(* POST /update (src/app/main.py, update_display).                         *)
(*                                                                         *)
(* update_display is a plain def, so the server runs each request on a     *)
(* worker thread and several requests can be inside it together.  A        *)
(* request is modelled statement by statement: the BMP_PATH.exists() test, *)
(* the non-blocking acquire of _update_lock, the call of                   *)
(* update_epd7in3f_display, its return or raise, and the finally clause.   *)
(* update_epd7in3f_display catches the driver's exceptions itself          *)
(* ("swallowed": the request still answers 200); "raised" stands for       *)
(* anything that escapes it, which update_display answers with 500.        *)

MaxClients == 3
MaxRequests == 4

Clients == 1..MaxClients

NoResponse == 0

UpdateOutcomes == {"ok", "swallowed", "raised"}

\* The pending response for the way the display call ended.
UpdateStatus(outcome) == IF outcome = "raised" THEN 500 ELSE 200

acquire_always(locked) == TRUE

\* _update_lock.acquire(blocking=False): TRUE iff the lock was free.
acquire(locked) == ~locked

InitUpdate ==
    /\ BatchIdle
    /\ RzIdle
    /\ ToneIdle
    /\ QzIdle
    /\ DzIdle
    /\ WxIdle
    /\ up = [st |-> "run",
             bmp |-> FALSE,
             locked |-> FALSE,
             pc |-> [r \in Clients |-> "idle"],
             resp |-> [r \in Clients |-> NoResponse],
             pending |-> [r \in Clients |-> NoResponse],
             in_progress |-> {},
             arrivals |-> 0,
             displays |-> 0]

\* POST /upload has written processed/img.bmp (process_image).
Upload ==
    /\ ~up.bmp
    /\ up' = [up EXCEPT !.bmp = TRUE]
    /\ UNCHANGED <<batchVars, rz, tone, qz, dz, wx>>

\* A POST /update request is handed to a worker thread.
Arrive(r) ==
    /\ up.pc[r] \in {"idle", "done"}
    /\ up.arrivals < MaxRequests
    /\ up' = [up EXCEPT !.pc[r] = "exists",
                        !.resp[r] = NoResponse,
                        !.pending[r] = NoResponse,
                        !.arrivals = @ + 1]
    /\ UNCHANGED <<batchVars, rz, tone, qz, dz, wx>>

\* if not BMP_PATH.exists(): return 404
CheckBmp(r) ==
    /\ up.pc[r] = "exists"
    /\ IF up.bmp
       THEN up' = [up EXCEPT !.pc[r] = "acquire"]
       ELSE up' = [up EXCEPT !.pc[r] = "done", !.resp[r] = 404]
    /\ UNCHANGED <<batchVars, rz, tone, qz, dz, wx>>

\* if not _update_lock.acquire(blocking=False): return 409
Acquire(r) ==
    /\ up.pc[r] = "acquire"
    /\ IF acquire(up.locked)
       THEN up' = [up EXCEPT !.pc[r] = "try", !.locked = TRUE]
       ELSE up' = [up EXCEPT !.pc[r] = "done", !.resp[r] = 409]
    /\ UNCHANGED <<batchVars, rz, tone, qz, dz, wx>>

\* try: update_epd7in3f_display(str(BMP_PATH)) is entered
CallUpdate(r) ==
    /\ up.pc[r] = "try"
    /\ up' = [up EXCEPT !.pc[r] = "display",
                        !.in_progress = @ \cup {r},
                        !.displays = @ + 1]
    /\ UNCHANGED <<batchVars, rz, tone, qz, dz, wx>>

\* update_epd7in3f_display returns or raises; the return statement of
\* the try or of the except clause fixes the response.
UpdateReturns(r) ==
    /\ up.pc[r] = "display"
    /\ \E outcome \in UpdateOutcomes :
          up' = [up EXCEPT !.pc[r] = "finally",
                           !.in_progress = @ \ {r},
                           !.pending[r] = UpdateStatus(outcome)]
    /\ UNCHANGED <<batchVars, rz, tone, qz, dz, wx>>

\* finally: _update_lock.release(), then the response goes out
Release(r) ==
    /\ up.pc[r] = "finally"
    /\ up' = [up EXCEPT !.pc[r] = "done",
                        !.locked = FALSE,
                        !.resp[r] = up.pending[r]]
    /\ UNCHANGED <<batchVars, rz, tone, qz, dz, wx>>

\* What a request thread does once it has been started.
Handle(r) ==
    \/ CheckBmp(r)
    \/ Acquire(r)
    \/ CallUpdate(r)
    \/ UpdateReturns(r)
    \/ Release(r)

NextUpdate ==
    \/ Upload
    \/ \E r \in Clients : Arrive(r)
    \/ \E r \in Clients : CheckBmp(r)
    \/ \E r \in Clients : Acquire(r)
    \/ \E r \in Clients : CallUpdate(r)
    \/ \E r \in Clients : UpdateReturns(r)
    \/ \E r \in Clients : Release(r)

\* A started request thread keeps running until it has answered.
FairUpdate == \A r \in Clients : WF_vars(Handle(r))

SpecUpdate == InitUpdate /\ [][NextUpdate]_vars /\ FairUpdate

\* The requests that hold _update_lock: between a successful acquire and
\* the finally clause.
Holders == {r \in Clients : up.pc[r] \in {"try", "display", "finally"}}

\* A request is answered 409 in this step.
Refused(r) == up.pc[r] = "acquire" /\ up'.resp[r] = 409

\* C11: under any interleaving of POST /update requests at most one call
\* of update_epd7in3f_display is in progress; a request that arrives while
\* one is in progress is answered 409 without touching the display and
\* without releasing the other request's lock; and the lock is released
\* after every request that acquired it, whether the display call returned
\* or raised, so that it is held exactly by the one request between its
\* acquire and its finally clause and a held lock always becomes free.
C11_UpdateLockExclusive ==
    /\ [](Cardinality(up.in_progress) <= 1)
    /\ [](Cardinality(Holders) <= 1 /\ (up.locked <=> Holders # {}))
    /\ [][\A r \in Clients :
            Refused(r) => /\ up.locked /\ up'.locked
                          /\ up'.in_progress = up.in_progress
                          /\ up'.displays = up.displays
                          /\ Holders # {} /\ r \notin Holders]_vars
    /\ [](\A r \in Clients : up.resp[r] = 409 => r \notin up.in_progress)
    /\ (up.locked ~> ~up.locked)

\* One request is inside the display call, a second has been refused with
\* 409 meanwhile, and a third has earlier held the lock through a display
\* call that raised.
C11_Witness ==
    \E r1, r2, r3 \in Clients :
        /\ r1 \in up.in_progress
        /\ up.locked
        /\ up.resp[r2] = 409
        /\ up.resp[r3] = 500

-----------------------------------------------------------------------------
(* The weather cache (src/app/main.py: _weather_worker, _weather_once,     *)
(* get_cached_weather; src/app/get_weather.py: get_weather).               *)
(*                                                                         *)
(* _weather_once writes the three app.state.weather_* fields inside one    *)
(* `with app.state.weather_lock` block and get_cached_weather reads them   *)
(* inside another, so a poll and a GET /weather are each one step.  The    *)
(* reply of the weather service is the poll's input.  A weather report is  *)
(* a small number; the time of a poll is its number.                       *)

MaxPolls == 4
MaxGets == 3

NoData == 0
NoTime == 0
NoError == "None"

WeatherReports == {1, 2}

\* What requests.get / r.json() / WeatherData.from_api can come to.
Replies ==
    {[kind |-> "ok", data |-> d] : d \in WeatherReports}
        \cup {[kind |-> "http_error", data |-> NoData],
              [kind |-> "malformed", data |-> NoData]}

\* get_weather: the parsed report, or None when the request fails
\* (requests.RequestException) or the answer is malformed (ValueError).
get_weather(reply) == IF reply.kind = "ok" THEN reply.data ELSE NoData

NoWeatherResponse == [status |-> 0, ok |-> FALSE, data |-> NoData, error |-> NoError]

\* get_cached_weather: the answer of GET /weather for the cached fields.
get_cached_weather(w) ==
    IF w.weather_data = NoData
    THEN IF w.weather_error # NoError
         THEN [status |-> 503, ok |-> FALSE, data |-> NoData, error |-> w.weather_error]
         ELSE [status |-> 202, ok |-> FALSE, data |-> NoData, error |-> "Weather not ready"]
    ELSE [status |-> 200, ok |-> TRUE, data |-> w.weather_data, error |-> NoError]

\* API_KEY is read from the environment once, at import.
InitWeather ==
    /\ BatchIdle
    /\ RzIdle
    /\ ToneIdle
    /\ QzIdle
    /\ DzIdle
    /\ UpIdle
    /\ \E key \in BOOLEAN :
          wx = [st |-> "run",
                api_key |-> key,
                weather_data |-> NoData,
                weather_updated |-> NoTime,
                weather_error |-> NoError,
                stop |-> FALSE,
                polls |-> 0,
                gets |-> 0,
                last_poll |-> "none",
                last_ok |-> NoData,
                answered_ok |-> FALSE,
                resp |-> NoWeatherResponse]

\* _weather_once, called by _weather_worker: at once on start, then every
\* PERIOD_SEC seconds until the stop event is set.
WeatherOnce ==
    /\ wx.st = "run"
    /\ wx.polls < MaxPolls
    /\ wx.polls = 0 \/ ~wx.stop
    /\ IF ~wx.api_key
       THEN \* raise RuntimeError(...) -> except: weather_error = str(e)
            wx' = [wx EXCEPT !.weather_error = "WEATHER_API_KEY not set",
                             !.polls = @ + 1,
                             !.last_poll = "no_key"]
       ELSE \E reply \in Replies :
               wx' = [wx EXCEPT !.weather_data = get_weather(reply),
                                !.weather_updated = wx.polls + 1,
                                !.weather_error = NoError,
                                !.polls = @ + 1,
                                !.last_poll = reply.kind,
                                !.last_ok = IF reply.kind = "ok" THEN reply.data ELSE @]
    /\ UNCHANGED <<batchVars, rz, tone, qz, dz, up>>

\* GET /weather
GetWeather ==
    /\ wx.st = "run"
    /\ wx.gets < MaxGets
    /\ LET answer == get_cached_weather(wx)
       IN  wx' = [wx EXCEPT !.resp = answer,
                            !.gets = @ + 1,
                            !.answered_ok = @ \/ answer.ok]
    /\ UNCHANGED <<batchVars, rz, tone, qz, dz, up>>

\* lifespan shutdown: stop.set()
Stop ==
    /\ wx.st = "run"
    /\ ~wx.stop
    /\ wx' = [wx EXCEPT !.stop = TRUE]
    /\ UNCHANGED <<batchVars, rz, tone, qz, dz, up>>

NextWeather ==
    \/ WeatherOnce
    \/ GetWeather
    \/ Stop

SpecWeather == InitWeather /\ [][NextWeather]_vars

FailedPolls == {"http_error", "malformed", "no_key"}

\* C12: a failed poll (HTTP error, malformed response, missing API key)
\* never discards the cached weather: once GET /weather has answered ok
\* with data, every later GET /weather answers ok with the data of the
\* most recent successful poll; and after a failed poll a weather_error
\* is recorded.
C12_FailedPollKeepsCache ==
    /\ [][(wx.st = "run" /\ wx'.gets # wx.gets /\ wx.answered_ok)
            => (wx'.resp.ok /\ wx'.resp.data = wx.last_ok)]_vars
    /\ []((wx.st = "run" /\ wx.last_poll \in FailedPolls)
            => wx.weather_error # NoError)

=============================================================================
